---------------------------- MODULE Spec2Model ----------------------------
(***************************************************************************)
(* A model of funding_rate_bot.py: the exchange adapters, the collector    *)
(* (collect_all_funding_rates, find_arbitrage_opportunities,               *)
(* _calculate_arbitrage_profit) and the bot (scan_opportunities,           *)
(* save_opportunities, run_continuous).                                    *)
(*                                                                         *)
(* Numbers.  The program computes with Python floats.  The model uses a    *)
(* fixed-point representation with six decimals: the integer n stands for  *)
(* n * 10^-6.  A rate of 0.0060 is 6000, the threshold 0.0001 is 100, the  *)
(* buffer 0.002 is 2000; a table entry given in percent, 0.08, is 80000,   *)
(* and the code's "/ 100" is \div 100 on it (800, that is 0.0008).  Every  *)
(* number of the tables is a multiple of 100 * 10^-6, so \div is exact.    *)
(* Floating-point rounding is outside the model.                           *)
(***************************************************************************)
EXTENDS Integers, Sequences, FiniteSets, TLC

VARIABLES
    pc,             \* control location of the operation being modelled
    funding_data,   \* the list of FundingRateData (exchange, symbol, rate)
    built,          \* every ArbitrageOpportunity constructed by the last search
    opportunities,  \* the list returned by find_arbitrage_opportunities
    adapter,        \* the adapter whose get_funding_rates is called
    symbols,        \* the list of symbols the caller asks for
    response,       \* what the exchange answers to the adapter's requests
    enabled,        \* config.ENABLED_EXCHANGES
    exIdx,          \* collect_all_funding_rates: position in self.exchanges
    calls,          \* the get_funding_rates calls made by the current collection
    profitable_ops, \* scan_opportunities: the opportunities at or above the threshold
    filename,       \* save_opportunities: the file being written
    files,          \* the output directory: file name -> content
    now,            \* the wall clock, in seconds
    in_loop,        \* run_continuous has reached its while loop
    exit_cause,     \* why run_continuous ended
    last_log,       \* the last warning or error written to the log
    scan_log,       \* what the scan under way has done of lines 497-498
    clock,          \* time.time(), in tenths of a second
    api,            \* the ExchangeAPI instances: position, fields and locals
    requests        \* per instance, the HTTP requests sent so far

findVars == <<funding_data, built, opportunities>>

adapterVars == <<adapter, symbols, response>>

collectVars == <<enabled, exIdx, calls>>

botVars == <<profitable_ops, filename, files, now, in_loop, exit_cause, last_log,
            scan_log>>

rateVars == <<clock, api, requests>>

vars == <<pc, funding_data, built, opportunities, adapter, symbols, response,
          enabled, exIdx, calls, profitable_ops, filename, files, now,
          in_loop, exit_cause, last_log, scan_log, clock, api, requests>>

\* No adapter call is being modelled.
NoAdapter == adapter = "none" /\ symbols = <<>> /\ response = "none"

\* No collection is being modelled.
NoCollect == enabled = {} /\ exIdx = 0 /\ calls = <<>>

\* The bot is not being modelled.
NoBot ==
    /\ profitable_ops = <<>>
    /\ filename = -1
    /\ files = <<>>
    /\ now = 0
    /\ in_loop = FALSE
    /\ exit_cause = "none"
    /\ last_log = "none"
    /\ scan_log = {}

\* No request is being modelled.
NoRate == clock = 0 /\ api = <<>> /\ requests = <<>>

(***************************************************************************)
(* Configuration (DefaultConfig).                                          *)
(***************************************************************************)
EXCHANGE_FEES ==
    [Binance |-> 80000, Bybit |-> 80000, OKX |-> 90000,
     Bitget |-> 100000, KuCoin |-> 90000]

SLIPPAGE_ESTIMATES ==
    [BTC |-> 10000, ETH |-> 20000, SOL |-> 30000, ADA |-> 40000,
     MATIC |-> 40000, DOT |-> 30000, AVAX |-> 30000]

DefaultFee == 100000        \* .get(exchange, 0.1)
DefaultSlippage == 50000    \* .get(symbol, 0.05)
FixedBuffer == 2000         \* + 0.002
MinRateDiff == 100          \* rate_diff > 0.0001

\* dict.get(key, default)
Get(table, key, default) == IF key \in DOMAIN table THEN table[key] ELSE default

(***************************************************************************)
(* FundingRateCollector._calculate_arbitrage_profit                        *)
(***************************************************************************)
\* Fault variant: the constructor takes each leg's fields from the other leg.
CalcSwappedLegs(long_rate, short_rate, symbol) ==
    LET rate_diff == long_rate.rate - short_rate.rate
        long_fees == Get(EXCHANGE_FEES, long_rate.exchange, DefaultFee) \div 100
        short_fees == Get(EXCHANGE_FEES, short_rate.exchange, DefaultFee) \div 100
        slippage == Get(SLIPPAGE_ESTIMATES, symbol, DefaultSlippage) \div 100
        total_fees == long_fees + short_fees + (2 * slippage) + FixedBuffer
    IN  [long_exchange |-> short_rate.exchange,
         short_exchange |-> long_rate.exchange,
         symbol |-> symbol,
         long_rate |-> short_rate.rate,
         short_rate |-> long_rate.rate,
         rate_difference |-> rate_diff,
         potential_profit_8h |-> rate_diff,
         estimated_fees |-> total_fees,
         net_profit_8h |-> rate_diff - total_fees]

\* Fault variant: the slippage is counted for one leg only.
CalcSingleSlippage(long_rate, short_rate, symbol) ==
    LET rate_diff == long_rate.rate - short_rate.rate
        long_fees == Get(EXCHANGE_FEES, long_rate.exchange, DefaultFee) \div 100
        short_fees == Get(EXCHANGE_FEES, short_rate.exchange, DefaultFee) \div 100
        slippage == Get(SLIPPAGE_ESTIMATES, symbol, DefaultSlippage) \div 100
        total_fees == long_fees + short_fees + slippage + FixedBuffer
    IN  [long_exchange |-> long_rate.exchange,
         short_exchange |-> short_rate.exchange,
         symbol |-> symbol,
         long_rate |-> long_rate.rate,
         short_rate |-> short_rate.rate,
         rate_difference |-> rate_diff,
         potential_profit_8h |-> rate_diff,
         estimated_fees |-> total_fees,
         net_profit_8h |-> rate_diff - total_fees]

CalculateArbitrageProfit(long_rate, short_rate, symbol) ==
    LET rate_diff == long_rate.rate - short_rate.rate
        long_fees == Get(EXCHANGE_FEES, long_rate.exchange, DefaultFee) \div 100
        short_fees == Get(EXCHANGE_FEES, short_rate.exchange, DefaultFee) \div 100
        slippage == Get(SLIPPAGE_ESTIMATES, symbol, DefaultSlippage) \div 100
        total_fees == long_fees + short_fees + (2 * slippage) + FixedBuffer
        gross_profit_8h == rate_diff
        net_profit_8h == gross_profit_8h - total_fees
    IN  [long_exchange |-> long_rate.exchange,
         short_exchange |-> short_rate.exchange,
         symbol |-> symbol,
         long_rate |-> long_rate.rate,
         short_rate |-> short_rate.rate,
         rate_difference |-> rate_diff,
         potential_profit_8h |-> gross_profit_8h,
         estimated_fees |-> total_fees,
         net_profit_8h |-> net_profit_8h]

(***************************************************************************)
(* FundingRateCollector.find_arbitrage_opportunities                       *)
(***************************************************************************)
\* The keys of symbol_groups in insertion order: the symbols of the input
\* in order of first appearance.
RECURSIVE GroupKeys(_, _, _)
GroupKeys(data, k, keys) ==
    IF k > Len(data) THEN keys
    ELSE IF \E m \in 1..Len(keys) : keys[m] = data[k].symbol
         THEN GroupKeys(data, k + 1, keys)
         ELSE GroupKeys(data, k + 1, Append(keys, data[k].symbol))

\* symbol_groups[symbol]: the records of the symbol, in input order.
SymbolGroup(data, symbol) == SelectSeq(data, LAMBDA d : d.symbol = symbol)

\* Fault variant: the inner loop runs over every j # i, so each pair is
\* visited twice.
RECURSIVE OrderedPairsFrom(_, _, _)
OrderedPairsFrom(n, i, j) ==
    IF i > n THEN <<>>
    ELSE IF j > n THEN OrderedPairsFrom(n, i + 1, 1)
    ELSE IF j = i THEN OrderedPairsFrom(n, i, j + 1)
    ELSE <<(<<i, j>>)>> \o OrderedPairsFrom(n, i, j + 1)

\* The index pairs visited by "for i in range(n): for j in range(i + 1, n)",
\* in the order visited (indices from 1).
RECURSIVE PairsFrom(_, _, _)
PairsFrom(n, i, j) ==
    IF i > n THEN <<>>
    ELSE IF j > n THEN PairsFrom(n, i + 1, i + 2)
    ELSE <<(<<i, j>>)>> \o PairsFrom(n, i, j + 1)

AllOrderedPairs(n) == OrderedPairsFrom(n, 1, 1)

IndexPairs(n) == PairsFrom(n, 1, 2)

\* Lines 435-438: the record with the larger rate is the long leg; on equal
\* rates the else branch takes rate2 as the long leg.
LongLeg(rate1, rate2) == IF rate1.rate > rate2.rate THEN rate1 ELSE rate2

ShortLeg(rate1, rate2) == IF rate1.rate > rate2.rate THEN rate2 ELSE rate1

\* Line 442.
SpreadPasses(rate_diff) == rate_diff > MinRateDiff

\* Fault variant of line 444: >= in place of >.
NetNotNegative(opportunity) == opportunity.net_profit_8h >= 0

\* Line 444.
NetPasses(opportunity) == opportunity.net_profit_8h > 0

\* The body of the inner loop for the pair p = (i, j) of a symbol's group:
\* the opportunity it constructs, if any.
PairCandidate(rates, symbol, p) ==
    LET rate1 == rates[p[1]]
        rate2 == rates[p[2]]
        long_rate == LongLeg(rate1, rate2)
        short_rate == ShortLeg(rate1, rate2)
        rate_diff == long_rate.rate - short_rate.rate
    IN  IF SpreadPasses(rate_diff)
        THEN <<CalculateArbitrageProfit(long_rate, short_rate, symbol)>>
        ELSE <<>>

\* The opportunities constructed for one symbol, in loop order.
RECURSIVE GroupCandidates(_, _, _, _)
GroupCandidates(rates, symbol, pairs, k) ==
    IF k > Len(pairs) THEN <<>>
    ELSE PairCandidate(rates, symbol, pairs[k])
         \o GroupCandidates(rates, symbol, pairs, k + 1)

\* "if len(rates) < 2: continue" and the two loops over the group.
SymbolCandidates(data, symbol) ==
    LET rates == SymbolGroup(data, symbol)
    IN  IF Len(rates) < 2 THEN <<>>
        ELSE GroupCandidates(rates, symbol, IndexPairs(Len(rates)), 1)

\* The outer loop over symbol_groups.items().
RECURSIVE AllCandidates(_, _, _)
AllCandidates(data, keys, k) ==
    IF k > Len(keys) THEN <<>>
    ELSE SymbolCandidates(data, keys[k]) \o AllCandidates(data, keys, k + 1)

\* Every opportunity constructed by the search (before line 444's test).
Constructed(data) == AllCandidates(data, GroupKeys(data, 1, <<>>), 1)

\* The list "opportunities" before the sort: the constructed ones that
\* pass line 444.
Appended(data) == SelectSeq(Constructed(data), LAMBDA c : NetPasses(c))

\* sorted(opportunities, key=net_profit_8h, reverse=True): Python's sort is
\* stable, also with reverse=True, so an element goes behind every element
\* whose key is greater or equal.
RECURSIVE InsertPos(_, _, _)
InsertPos(acc, key, k) ==
    IF k > Len(acc) THEN k
    ELSE IF acc[k].net_profit_8h < key THEN k
    ELSE InsertPos(acc, key, k + 1)

\* Fault variants: a descending sort that puts an element before its equals,
\* and an ascending sort (reverse=True left out).
RECURSIVE InsertPosTiesFirst(_, _, _)
InsertPosTiesFirst(acc, key, k) ==
    IF k > Len(acc) THEN k
    ELSE IF acc[k].net_profit_8h <= key THEN k
    ELSE InsertPosTiesFirst(acc, key, k + 1)

RECURSIVE InsertPosAscending(_, _, _)
InsertPosAscending(acc, key, k) ==
    IF k > Len(acc) THEN k
    ELSE IF acc[k].net_profit_8h > key THEN k
    ELSE InsertPosAscending(acc, key, k + 1)

InsertTiesFirst(acc, c) ==
    LET p == InsertPosTiesFirst(acc, c.net_profit_8h, 1)
    IN  SubSeq(acc, 1, p - 1) \o <<c>> \o SubSeq(acc, p, Len(acc))

InsertAscending(acc, c) ==
    LET p == InsertPosAscending(acc, c.net_profit_8h, 1)
    IN  SubSeq(acc, 1, p - 1) \o <<c>> \o SubSeq(acc, p, Len(acc))

InsertSorted(acc, c) ==
    LET p == InsertPos(acc, c.net_profit_8h, 1)
    IN  SubSeq(acc, 1, p - 1) \o <<c>> \o SubSeq(acc, p, Len(acc))

RECURSIVE SortFrom(_, _, _)
SortFrom(list, k, acc) ==
    IF k > Len(list) THEN acc
    ELSE SortFrom(list, k + 1, InsertSorted(acc, list[k]))

SortedByNetDesc(list) == SortFrom(list, 1, <<>>)

\* The returned list.
FindArbitrageOpportunities(data) == SortedByNetDesc(Appended(data))

(***************************************************************************)
(* The search as a function of its input: SpecFind draws the input list    *)
(* and applies find_arbitrage_opportunities to it.                         *)
(***************************************************************************)
MaxRecords == 3

FindExchanges == {"Binance", "Bybit", "OKX"}
FindSymbols == {"BTC", "ETH"}
FindRates == {100, 200, 1000, 4000, 6000}

FundingRateData ==
    [exchange : FindExchanges, symbol : FindSymbols, rate : FindRates]

\* One record per (exchange, symbol) and poll cycle.
OnePerExchangeSymbol(data) ==
    \A a, b \in 1..Len(data) :
        (a # b) => (data[a].exchange # data[b].exchange
                    \/ data[a].symbol # data[b].symbol)

FindInputs ==
    {d \in UNION {[1..n -> FundingRateData] : n \in 0..MaxRecords} :
        OnePerExchangeSymbol(d)}

FindInit ==
    /\ pc = "find_input"
    /\ funding_data \in FindInputs
    /\ built = <<>>
    /\ opportunities = <<>>
    /\ NoAdapter
    /\ NoCollect
    /\ NoBot
    /\ NoRate

Find ==
    /\ pc = "find_input"
    /\ opportunities' = FindArbitrageOpportunities(funding_data)
    /\ built' = Constructed(funding_data)
    /\ pc' = "find_done"
    /\ UNCHANGED <<funding_data, adapterVars, rateVars, collectVars, botVars>>

FindNext == Find

SpecFind == FindInit /\ [][FindNext]_vars


(***************************************************************************)
(* The exchange adapters.  An answer of the exchange to one HTTP request   *)
(* is a transport error, or a status code with a body.  An item of a body  *)
(* is well formed ("ok"), a dict whose funding rate is not a number        *)
(* ("bad_rate": float() raises ValueError), or not a dict at all           *)
(* ("not_dict": item.get raises AttributeError).                           *)
(***************************************************************************)
\* ExchangeAPI._make_request: the parsed body on status 200, None otherwise
\* (a non-200 status, and any exception of the request or of json()).
MakeRequest(answer) ==
    IF answer.kind = "http" /\ answer.status = 200
    THEN [some |-> TRUE, json |-> answer.body]
    ELSE [some |-> FALSE, json |-> <<>>]

BinanceSymbolMapping ==
    [BTC |-> "BTCUSDT", ETH |-> "ETHUSDT", SOL |-> "SOLUSDT", ADA |-> "ADAUSDT",
     MATIC |-> "MATICUSDT", DOT |-> "DOTUSDT", AVAX |-> "AVAXUSDT"]

OKXSymbolMapping ==
    [BTC |-> "BTC-USDT-SWAP", ETH |-> "ETH-USDT-SWAP", SOL |-> "SOL-USDT-SWAP",
     ADA |-> "ADA-USDT-SWAP", MATIC |-> "MATIC-USDT-SWAP",
     DOT |-> "DOT-USDT-SWAP", AVAX |-> "AVAX-USDT-SWAP"]

\* "x in symbols" for a list.
InList(x, list) == \E k \in 1..Len(list) : list[k] = x

\* Lines 147-152: the base symbol whose full name is symbol_name, if any.
BinanceHasBase(symbol_name) ==
    \E base \in DOMAIN BinanceSymbolMapping :
        BinanceSymbolMapping[base] = symbol_name

BinanceBase(symbol_name) ==
    CHOOSE base \in DOMAIN BinanceSymbolMapping :
        BinanceSymbolMapping[base] = symbol_name

\* BinanceAPI.get_funding_rates, lines 145-170: the loop over the items runs
\* inside the single try of the method, so the first item that raises ends
\* the loop: lines 172-175 log the exception and return what was appended
\* before it.
RECURSIVE BinanceItems(_, _, _, _)
BinanceItems(data, syms, k, acc) ==
    IF k > Len(data) THEN acc
    ELSE IF data[k].shape = "not_dict" THEN acc
    ELSE IF BinanceHasBase(data[k].symbol)
            /\ InList(BinanceBase(data[k].symbol), syms)
         THEN IF data[k].shape = "bad_rate" THEN acc
              ELSE BinanceItems(data, syms, k + 1,
                       Append(acc, [exchange |-> "Binance",
                                    symbol |-> BinanceBase(data[k].symbol),
                                    rate |-> data[k].rate]))
         ELSE BinanceItems(data, syms, k + 1, acc)

\* BinanceAPI.get_funding_rates: one request for all symbols.
BinanceGetFundingRates(answer, syms) ==
    LET data == MakeRequest(answer)
    IN  IF ~ data.some \/ data.json = <<>> THEN <<>>
        ELSE BinanceItems(data.json, syms, 1, <<>>)

\* OKXAPI.get_funding_rates: one request per symbol, each in a try of its
\* own (lines 245-274): an exception is logged and the loop continues.
RECURSIVE OKXSymbols(_, _, _, _)
OKXSymbols(answers, syms, k, acc) ==
    IF k > Len(syms) THEN acc
    ELSE IF syms[k] \notin DOMAIN OKXSymbolMapping
         THEN OKXSymbols(answers, syms, k + 1, acc)
    ELSE LET data == MakeRequest(answers[OKXSymbolMapping[syms[k]]])
         IN  IF data.some /\ data.json.has_data /\ data.json.data # <<>>
             THEN IF data.json.data[1].shape # "ok"
                  THEN OKXSymbols(answers, syms, k + 1, acc)
                  ELSE OKXSymbols(answers, syms, k + 1,
                           Append(acc, [exchange |-> "OKX",
                                        symbol |-> syms[k],
                                        rate |-> data.json.data[1].rate]))
             ELSE OKXSymbols(answers, syms, k + 1, acc)

OKXGetFundingRates(answers, syms) == OKXSymbols(answers, syms, 1, <<>>)

(***************************************************************************)
(* One call of an adapter: SpecAdapter draws the adapter, the requested    *)
(* symbols and the answers of the exchange.                                *)
(***************************************************************************)
MaxItems == 2

AdapterRates == {200, 6000}

SymbolLists == {<<"BTC", "ETH">>, <<"ETH", "BTC">>, <<"BTC">>, <<"XRP", "ETH">>}

TransportError == [kind |-> "error", status |-> 0, body |-> <<>>]

BinanceInstruments == {"BTCUSDT", "ETHUSDT", "XRPUSDT"}

BinanceItemSet ==
    [symbol : BinanceInstruments, shape : {"ok"}, rate : AdapterRates]
    \cup [symbol : BinanceInstruments, shape : {"bad_rate"}, rate : {0}]
    \cup {[symbol |-> "", shape |-> "not_dict", rate |-> 0]}

\* The exchange lists an instrument once.
DistinctInstruments(items) ==
    \A a, b \in 1..Len(items) :
        (a # b /\ items[a].shape # "not_dict" /\ items[b].shape # "not_dict")
            => items[a].symbol # items[b].symbol

BinanceBodies ==
    {b \in UNION {[1..n -> BinanceItemSet] : n \in 0..MaxItems} :
        DistinctInstruments(b)}

BinanceAnswers ==
    {TransportError}
    \cup [kind : {"http"}, status : {500}, body : {<<>>}]
    \cup [kind : {"http"}, status : {200}, body : BinanceBodies]

OKXInstruments == {"BTC-USDT-SWAP", "ETH-USDT-SWAP"}

OKXItemSet ==
    [shape : {"ok"}, rate : AdapterRates]
    \cup {[shape |-> "bad_rate", rate |-> 0], [shape |-> "not_dict", rate |-> 0]}

OKXBodies ==
    {[has_data |-> FALSE, data |-> <<>>], [has_data |-> TRUE, data |-> <<>>]}
    \cup {[has_data |-> TRUE, data |-> <<i>>] : i \in OKXItemSet}

OKXAnswer ==
    {[kind |-> "error", status |-> 0, body |-> [has_data |-> FALSE, data |-> <<>>]],
     [kind |-> "http", status |-> 500, body |-> [has_data |-> FALSE, data |-> <<>>]]}
    \cup [kind : {"http"}, status : {200}, body : OKXBodies]

OKXAnswers == [OKXInstruments -> OKXAnswer]

AdapterInit ==
    /\ pc = "adapter_call"
    /\ symbols \in SymbolLists
    /\ \/ adapter = "Binance" /\ response \in BinanceAnswers
       \/ adapter = "OKX" /\ response \in OKXAnswers
    /\ funding_data = <<>>
    /\ built = <<>>
    /\ opportunities = <<>>
    /\ NoCollect
    /\ NoBot
    /\ NoRate

BinanceCall ==
    /\ pc = "adapter_call"
    /\ adapter = "Binance"
    /\ funding_data' = BinanceGetFundingRates(response, symbols)
    /\ pc' = "adapter_returned"
    /\ UNCHANGED <<built, opportunities, adapterVars, rateVars, collectVars, botVars>>

OKXCall ==
    /\ pc = "adapter_call"
    /\ adapter = "OKX"
    /\ funding_data' = OKXGetFundingRates(response, symbols)
    /\ pc' = "adapter_returned"
    /\ UNCHANGED <<built, opportunities, adapterVars, rateVars, collectVars, botVars>>

AdapterNext == BinanceCall \/ OKXCall

SpecAdapter == AdapterInit /\ [][AdapterNext]_vars

(***************************************************************************)
(* ExchangeAPI._rate_limit and the request of ExchangeAPI._make_request,   *)
(* statement by statement, for two adapter instances that are called in    *)
(* turn by one thread.  The clock is time.time() in tenths of a second; it *)
(* only moves forward, and it may move between any two statements.         *)
(* time.sleep(d) returns when at least d has passed since it was called.   *)
(***************************************************************************)
min_request_interval == 5       \* 0.5 s

MaxRequests == 2

MaxClock == 11

Instances == {"Binance", "OKX"}

\* How a request ends: status 200, another status, or an exception.
Outcomes == {"200", "non200", "exception"}

\* Fault variant: the sleep lasts the time elapsed, not the time missing.
SleepElapsed(time_since_last) == time_since_last

\* Line 105: the argument of time.sleep.
SleepDuration(time_since_last) == min_request_interval - time_since_last

\* An adapter calls self._make_request, which calls self._rate_limit (line
\* 110).  One thread runs all adapters: no other call is under way.
CallMakeRequest(a) ==
    /\ pc = "requests"
    /\ \A b \in Instances : api[b].at = "idle"
    /\ Len(requests[a]) < MaxRequests
    /\ api' = [api EXCEPT ![a].at = "rate_limit"]
    /\ UNCHANGED <<pc, findVars, adapterVars, collectVars, botVars, clock,
                   requests>>

\* Line 102: current_time = time.time().
ReadTime(a) ==
    /\ api[a].at = "rate_limit"
    /\ api' = [api EXCEPT ![a].at = "compare", ![a].current_time = clock]
    /\ UNCHANGED <<pc, findVars, adapterVars, collectVars, botVars, clock,
                   requests>>

\* Lines 103-105: the time since the last request is compared with the
\* interval, and time.sleep is called for what is missing.
CompareAndSleep(a) ==
    /\ api[a].at = "compare"
    /\ LET time_since_last == api[a].current_time - api[a].last_request_time
       IN  IF time_since_last < min_request_interval
           THEN api' = [api EXCEPT ![a].at = "sleeping",
                                   ![a].wake = clock + SleepDuration(time_since_last)]
           ELSE api' = [api EXCEPT ![a].at = "record"]
    /\ UNCHANGED <<pc, findVars, adapterVars, collectVars, botVars, clock,
                   requests>>

\* Line 105: time.sleep returns.
WakeUp(a) ==
    /\ api[a].at = "sleeping"
    /\ clock >= api[a].wake
    /\ api' = [api EXCEPT ![a].at = "record"]
    /\ UNCHANGED <<pc, findVars, adapterVars, collectVars, botVars, clock,
                   requests>>

\* Line 106: self.last_request_time = time.time(), and _rate_limit returns;
\* its locals are gone.
RecordTime(a) ==
    /\ api[a].at = "record"
    /\ api' = [api EXCEPT ![a].at = "request", ![a].last_request_time = clock,
                            ![a].current_time = 0, ![a].wake = 0]
    /\ UNCHANGED <<pc, findVars, adapterVars, collectVars, botVars, clock,
                   requests>>

\* Line 114: self.session.get sends the request.
SendRequest(a) ==
    /\ api[a].at = "request"
    /\ api' = [api EXCEPT ![a].at = "in_flight"]
    /\ requests' = [requests EXCEPT ![a] =
                      Append(@, [recorded |-> api[a].last_request_time,
                                 sent_at |-> clock,
                                 outcome |-> "in_flight"])]
    /\ UNCHANGED <<pc, findVars, adapterVars, collectVars, botVars, clock>>

\* Lines 116-124: the request ends and _make_request returns.
RequestEnds(a) ==
    /\ api[a].at = "in_flight"
    /\ \E o \in Outcomes :
        requests' = [requests EXCEPT ![a][Len(requests[a])].outcome = o]
    /\ api' = [api EXCEPT ![a].at = "idle"]
    /\ UNCHANGED <<pc, findVars, adapterVars, collectVars, botVars, clock>>

\* Time passes.
ClockTick ==
    /\ pc = "requests"
    /\ clock < MaxClock
    /\ clock' = clock + 1
    /\ UNCHANGED <<pc, findVars, adapterVars, collectVars, botVars, api,
                   requests>>

\* Lines 90-98: the instances as constructed, last_request_time = 0.  The
\* clock counts from 1970, so it is past the interval at the first call.
RateInit ==
    /\ pc = "requests"
    /\ clock = min_request_interval
    /\ api = [a \in Instances |->
                [at |-> "idle", last_request_time |-> 0, current_time |-> 0,
                 wake |-> 0]]
    /\ requests = [a \in Instances |-> <<>>]
    /\ funding_data = <<>>
    /\ built = <<>>
    /\ opportunities = <<>>
    /\ NoAdapter
    /\ NoCollect
    /\ NoBot

RateNext ==
    \/ \E a \in Instances : CallMakeRequest(a)
    \/ \E a \in Instances : ReadTime(a)
    \/ \E a \in Instances : CompareAndSleep(a)
    \/ \E a \in Instances : WakeUp(a)
    \/ \E a \in Instances : RecordTime(a)
    \/ \E a \in Instances : SendRequest(a)
    \/ \E a \in Instances : RequestEnds(a)
    \/ ClockTick

SpecRate == RateInit /\ [][RateNext]_vars

(***************************************************************************)
(* FundingRateCollector.collect_all_funding_rates.  Here a call of an      *)
(* adapter's get_funding_rates either returns a list of records or raises. *)
(***************************************************************************)
\* The exchange table of FundingRateCollector.__init__, in dict order.
ExchangeTable == <<"binance", "bybit", "okx", "bitget", "kucoin">>

AdapterName ==
    [binance |-> "Binance", bybit |-> "Bybit", okx |-> "OKX",
     bitget |-> "Bitget", kucoin |-> "KuCoin"]

\* self.exchanges after line 392: the enabled entries, in table order.
Exchanges(en) == SelectSeq(ExchangeTable, LAMBDA k : k \in en)

\* Fault variant: the except clause leaves the loop.
BreakAfterAdapterError(idx, n) == n + 1

\* Lines 410-412: the except clause ends with "continue".

AfterAdapterError(idx, n) == idx + 1

CollectRates == {200, 6000, 10000}

\* What a call of an adapter may return.
AdapterResults(name) ==
    {<<>>} \cup {<<[exchange |-> name, symbol |-> "BTC", rate |-> r]>> :
                    r \in CollectRates}

\* Lines 404-408: get_funding_rates returns and its records are appended.
CallAdapterReturns ==
    /\ pc = "collect"
    /\ exIdx <= Len(Exchanges(enabled))
    /\ \E rates \in AdapterResults(AdapterName[Exchanges(enabled)[exIdx]]) :
        /\ funding_data' = funding_data \o rates
        /\ calls' = Append(calls, [exchange |-> Exchanges(enabled)[exIdx],
                                   raised |-> FALSE, rates |-> rates])
    /\ exIdx' = exIdx + 1
    /\ UNCHANGED <<pc, built, opportunities, adapterVars, rateVars, enabled, botVars>>

\* Lines 410-412: get_funding_rates raises; the error is logged.
CallAdapterRaises ==
    /\ pc = "collect"
    /\ exIdx <= Len(Exchanges(enabled))
    /\ calls' = Append(calls, [exchange |-> Exchanges(enabled)[exIdx],
                               raised |-> TRUE, rates |-> <<>>])
    /\ exIdx' = AfterAdapterError(exIdx, Len(Exchanges(enabled)))
    /\ last_log' = "adapter_error"
    /\ UNCHANGED <<pc, funding_data, built, opportunities, adapterVars, rateVars, enabled,
                   profitable_ops, filename, files, now, in_loop, exit_cause,
                   scan_log>>

\* Lines 414-415: the loop is over and all_funding_data is returned.
CollectDone ==
    /\ pc = "collect"
    /\ exIdx > Len(Exchanges(enabled))
    /\ pc' = "collected"
    /\ UNCHANGED <<funding_data, built, opportunities, adapterVars, rateVars, collectVars,
                   botVars>>

\* One call of collect_all_funding_rates, for every set of enabled exchanges.
CollectInit ==
    /\ pc = "collect"
    /\ enabled \in SUBSET {"binance", "bybit", "okx", "bitget", "kucoin"}
    /\ exIdx = 1
    /\ calls = <<>>
    /\ funding_data = <<>>
    /\ built = <<>>
    /\ opportunities = <<>>
    /\ NoAdapter
    /\ NoBot
    /\ NoRate

CollectNext == CallAdapterReturns \/ CallAdapterRaises \/ CollectDone

SpecCollect == CollectInit /\ [][CollectNext]_vars

(***************************************************************************)
(* FundingRateBot: run_continuous, scan_opportunities, save_opportunities. *)
(***************************************************************************)
MIN_PROFIT_THRESHOLD == 5000    \* 0.005
POSITION_SIZE == 1000

MaxTime == 1

\* Fault variant: the list kept is the slice that is displayed (line 507).
ProfitableTopFive(ops) ==
    LET kept == SelectSeq(ops, LAMBDA op : op.net_profit_8h >= MIN_PROFIT_THRESHOLD)
    IN  IF Len(kept) > 5 THEN SubSeq(kept, 1, 5) ELSE kept

\* Lines 500-503.
ProfitableOps(ops) ==
    SelectSeq(ops, LAMBDA op : op.net_profit_8h >= MIN_PROFIT_THRESHOLD)

\* Lines 562-573: the JSON object of one opportunity.
FileEntry(op) ==
    [symbol |-> op.symbol,
     long_exchange |-> op.long_exchange,
     short_exchange |-> op.short_exchange,
     long_rate |-> op.long_rate,
     short_rate |-> op.short_rate,
     rate_difference |-> op.rate_difference,
     net_profit_8h_pct |-> op.net_profit_8h,
     estimated_profit_usd |-> op.net_profit_8h * POSITION_SIZE]

\* Fault variant: an exception of the loop body ends run_continuous.
LoopExceptionExits == "crashed"

\* Lines 598-600: an exception of the loop body is logged, the loop sleeps
\* and goes on.

OnLoopException == "error_sleep"

\* scan_opportunities returns to run_continuous: after the first scan
\* (line 585) the while loop is entered, after a scheduled scan
\* schedule.run_pending() returns and the loop sleeps (line 593).  The
\* locals of the scan are gone.
ReturnFromScan ==
    /\ pc' = IF in_loop THEN "sleep" ELSE "loop"
    /\ in_loop' = TRUE
    /\ funding_data' = <<>>
    /\ built' = <<>>
    /\ opportunities' = <<>>
    /\ profitable_ops' = <<>>
    /\ calls' = <<>>
    /\ exIdx' = 0
    /\ filename' = -1

\* Lines 487-491: the scan starts and calls the collector; it has displayed
\* no summary and made no search yet.
ScanBegin ==
    /\ pc = "scan_begin"
    /\ pc' = "collect"
    /\ exIdx' = 1
    /\ calls' = <<>>
    /\ funding_data' = <<>>
    /\ scan_log' = {}
    /\ UNCHANGED <<built, opportunities, adapterVars, rateVars, enabled,
                   profitable_ops, filename, files, now, in_loop, exit_cause,
                   last_log>>

\* Line 488: print() stands before the try of scan_opportunities; when it
\* raises (OSError on a closed stdout), the exception leaves the scan.  In
\* the loop line 598 catches it; from the first scan (line 585) it leaves
\* run_continuous.
ScanBeginRaises ==
    /\ pc = "scan_begin"
    /\ IF in_loop
       THEN /\ pc' = OnLoopException
            /\ last_log' = "loop_error"
            /\ exit_cause' = IF OnLoopException = "crashed"
                             THEN "exception" ELSE exit_cause
       ELSE /\ pc' = "crashed"
            /\ exit_cause' = "exception"
            /\ last_log' = last_log
    /\ UNCHANGED <<funding_data, built, opportunities, adapterVars, rateVars, collectVars,
                   profitable_ops, filename, files, now, in_loop,
                   scan_log>>

\* Fault variant: the test of line 493 is missing and the scan goes on with
\* the empty list: a summary of nothing, a search that finds nothing.
NoDataGoesOn ==
    /\ pc = "collected"
    /\ funding_data = <<>>
    /\ scan_log' = {"summary", "search"}
    /\ ReturnFromScan
    /\ UNCHANGED <<adapterVars, rateVars, enabled, files, now, exit_cause, last_log>>

\* Lines 493-495: nothing was collected; the scan warns and returns.
ScanNoData ==
    /\ pc = "collected"
    /\ funding_data = <<>>
    /\ last_log' = "no_data"
    /\ ReturnFromScan
    /\ UNCHANGED <<adapterVars, rateVars, enabled, files, now, exit_cause,
                   scan_log>>

\* Lines 497-513: the summary is displayed (line 497), the search made (line
\* 498) and the threshold applied; with profitable
\* opportunities the scan goes on to save_opportunities, else it returns.
ScanAnalyse ==
    /\ pc = "collected"
    /\ funding_data # <<>>
    /\ LET ops == FindArbitrageOpportunities(funding_data)
       IN  IF ProfitableOps(ops) # <<>>
           THEN /\ pc' = "save_open"
                /\ opportunities' = ops
                /\ built' = Constructed(funding_data)
                /\ profitable_ops' = ProfitableOps(ops)
                /\ UNCHANGED <<funding_data, calls, exIdx, filename, in_loop>>
           ELSE ReturnFromScan
    /\ scan_log' = {"summary", "search"}
    /\ UNCHANGED <<adapterVars, rateVars, enabled, files, now, exit_cause, last_log>>

\* Lines 557-575: the file name is the time in seconds; open(filename, 'w')
\* creates the file, or empties the one of that name.
SaveOpen ==
    /\ pc = "save_open"
    /\ pc' = "save_write"
    /\ filename' = now
    /\ files' = (now :> [data |-> <<>>, complete |-> FALSE]) @@ files
    /\ UNCHANGED <<funding_data, built, opportunities, adapterVars, rateVars, collectVars,
                   profitable_ops, now, in_loop, exit_cause, last_log,
                   scan_log>>

\* Line 575: open() raises (OSError); line 515 catches and logs it.
SaveOpenFails ==
    /\ pc = "save_open"
    /\ last_log' = "scan_error"
    /\ ReturnFromScan
    /\ UNCHANGED <<adapterVars, rateVars, enabled, files, now, exit_cause,
                   scan_log>>

\* Line 576: json.dump writes the array to the file piece by piece; here a
\* piece is one object.
SaveWrite ==
    /\ pc = "save_write"
    /\ Len(files[filename].data) < Len(profitable_ops)
    /\ files' = [files EXCEPT ![filename].data =
                    Append(@, FileEntry(profitable_ops[Len(@) + 1]))]
    /\ UNCHANGED <<pc, funding_data, built, opportunities, adapterVars, rateVars,
                   collectVars, profitable_ops, filename, now, in_loop,
                   exit_cause, last_log,
                   scan_log>>

\* Line 576: a write raises (OSError, disk full); the with statement closes
\* the file as it is, and line 515 catches and logs the exception.
SaveWriteFails ==
    /\ pc = "save_write"
    /\ last_log' = "scan_error"
    /\ ReturnFromScan
    /\ UNCHANGED <<adapterVars, rateVars, enabled, files, now, exit_cause,
                   scan_log>>

\* Lines 576-578: the array is complete and the file is closed.
SaveClose ==
    /\ pc = "save_write"
    /\ Len(files[filename].data) = Len(profitable_ops)
    /\ files' = [files EXCEPT ![filename].complete = TRUE]
    /\ ReturnFromScan
    /\ UNCHANGED <<adapterVars, rateVars, enabled, now, exit_cause, last_log,
                   scan_log>>

\* Line 592: schedule.run_pending() runs the scan when it is due.
RunPendingDue ==
    /\ pc = "loop"
    /\ pc' = "scan_begin"
    /\ UNCHANGED <<funding_data, built, opportunities, adapterVars, rateVars, collectVars,
                   botVars>>

\* Line 592: no scan is due.
RunPendingIdle ==
    /\ pc = "loop"
    /\ pc' = "sleep"
    /\ UNCHANGED <<funding_data, built, opportunities, adapterVars, rateVars, collectVars,
                   botVars>>

\* Line 593: time.sleep(60).
Sleep ==
    /\ pc = "sleep"
    /\ now < MaxTime
    /\ now' = now + 1
    /\ pc' = "loop"
    /\ UNCHANGED <<funding_data, built, opportunities, adapterVars, rateVars, collectVars,
                   profitable_ops, filename, files, in_loop, exit_cause, last_log,
                   scan_log>>

\* Line 600: time.sleep(300) of the except clause.
ErrorSleep ==
    /\ pc = "error_sleep"
    /\ now < MaxTime
    /\ now' = now + 1
    /\ pc' = "loop"
    /\ UNCHANGED <<funding_data, built, opportunities, adapterVars, rateVars, collectVars,
                   profitable_ops, filename, files, in_loop, exit_cause, last_log,
                   scan_log>>

\* Time passes while the collector waits for the exchanges.
Tick ==
    /\ pc = "collect"
    /\ now < MaxTime
    /\ now' = now + 1
    /\ UNCHANGED <<pc, funding_data, built, opportunities, adapterVars, rateVars,
                   collectVars, profitable_ops, filename, files, in_loop,
                   exit_cause, last_log,
                   scan_log>>

\* Ctrl+C.  "except Exception" (lines 410, 515, 598) does not catch
\* KeyboardInterrupt: raised in the loop it reaches line 594 and the loop
\* breaks, raised in the first scan or in line 600 it leaves run_continuous.
\* Raised while the file is written, the with statement closes the file as
\* it is.
KeyboardInterrupt ==
    /\ pc \notin {"stopped", "crashed"}
    /\ pc' = "stopped"
    /\ exit_cause' = "KeyboardInterrupt"
    /\ UNCHANGED <<funding_data, built, opportunities, adapterVars, rateVars, collectVars,
                   profitable_ops, filename, files, now, in_loop, last_log,
                   scan_log>>

BotConfigs == {{"binance", "bybit"}, {"binance", "bybit", "okx"}}

\* run_continuous is called: line 585 runs the first scan.
Init ==
    /\ pc = "scan_begin"
    /\ enabled \in BotConfigs
    /\ exIdx = 0
    /\ calls = <<>>
    /\ funding_data = <<>>
    /\ built = <<>>
    /\ opportunities = <<>>
    /\ NoAdapter
    /\ NoBot
    /\ NoRate

Next ==
    \/ ScanBegin
    \/ ScanBeginRaises
    \/ CallAdapterReturns
    \/ CallAdapterRaises
    \/ CollectDone
    \/ ScanNoData
    \/ ScanAnalyse
    \/ SaveOpen
    \/ SaveOpenFails
    \/ SaveWrite
    \/ SaveWriteFails
    \/ SaveClose
    \/ RunPendingDue
    \/ RunPendingIdle
    \/ Sleep
    \/ ErrorSleep
    \/ Tick
    \/ KeyboardInterrupt

Spec == Init /\ [][Next]_vars

(***************************************************************************)
(* One call of scan_opportunities with every exchange of the default       *)
(* configuration enabled (line 37), from its first line to its return or   *)
(* to the exception that leaves it.  It is the scan of "--mode scan"       *)
(* (line 637) and the first scan of run_continuous (line 585); what the    *)
(* caller does after the return is not followed.                           *)
(***************************************************************************)
ScanConfigs == {{"binance", "bybit", "okx", "bitget", "kucoin"}}

ScanInit ==
    /\ pc = "scan_begin"
    /\ enabled \in ScanConfigs
    /\ exIdx = 0
    /\ calls = <<>>
    /\ funding_data = <<>>
    /\ built = <<>>
    /\ opportunities = <<>>
    /\ NoAdapter
    /\ NoBot
    /\ NoRate

ScanNext ==
    \/ ScanBegin
    \/ ScanBeginRaises
    \/ CallAdapterReturns
    \/ CallAdapterRaises
    \/ CollectDone
    \/ ScanNoData
    \/ ScanAnalyse
    \/ SaveOpen
    \/ SaveOpenFails
    \/ SaveWrite
    \/ SaveWriteFails
    \/ SaveClose
    \/ Tick
    \/ KeyboardInterrupt

SpecScan == ScanInit /\ [][ScanNext]_vars

(***************************************************************************)
(* Properties of find_arbitrage_opportunities and                          *)
(* _calculate_arbitrage_profit, checked under SpecFind.                    *)
(***************************************************************************)
Abs(x) == IF x < 0 THEN -x ELSE x

\* The fees of a pair of exchanges on a symbol, from the tables in percent.
PairFees(exchange1, exchange2, symbol) ==
    (EXCHANGE_FEES[exchange1] \div 100) + (EXCHANGE_FEES[exchange2] \div 100)
    + 2 * (SLIPPAGE_ESTIMATES[symbol] \div 100) + 2000

\* Two records of the input form a pair that the search must report.
Reportable(a, b) ==
    /\ funding_data[a].symbol = funding_data[b].symbol
    /\ Abs(funding_data[a].rate - funding_data[b].rate) > 100
    /\ Abs(funding_data[a].rate - funding_data[b].rate)
         - PairFees(funding_data[a].exchange, funding_data[b].exchange,
                    funding_data[a].symbol) > 0

\* The opportunity o is the one of the input records at positions a and b.
IsPairOf(o, a, b) ==
    /\ o.symbol = funding_data[a].symbol
    /\ o.symbol = funding_data[b].symbol
    /\ {o.long_exchange, o.short_exchange}
         = {funding_data[a].exchange, funding_data[b].exchange}

\* The positions in the input of the two records an opportunity was built from.
LegPositions(o) ==
    {a \in 1..Len(funding_data) :
        /\ funding_data[a].symbol = o.symbol
        /\ funding_data[a].exchange \in {o.long_exchange, o.short_exchange}}

Min(S) == CHOOSE x \in S : \A y \in S : x <= y
Max(S) == CHOOSE x \in S : \A y \in S : x >= y

\* The place of an opportunity's pair in the enumeration: the first position
\* of its symbol in the input, then the positions i < j of its two records.
EnumKey(o) ==
    <<Min({a \in 1..Len(funding_data) : funding_data[a].symbol = o.symbol}),
      Min(LegPositions(o)), Max(LegPositions(o))>>

LexLess(x, y) ==
    \/ x[1] < y[1]
    \/ x[1] = y[1] /\ x[2] < y[2]
    \/ x[1] = y[1] /\ x[2] = y[2] /\ x[3] < y[3]

\* C1: every opportunity built by _calculate_arbitrage_profit has
\* estimated_fees = fee(long)/100 + fee(short)/100 + 2*slippage/100 + 0.002
\* and net_profit_8h = rate_difference - estimated_fees; with fees 0.08% and
\* 0.08%, slippage 0.01% and rates 0.0060 and 0.0002 the difference is
\* 0.0058, the fees 0.0038 and the net profit 0.0020.
C1_FeesAndNetProfit ==
    pc = "find_done" =>
        \A k \in 1..Len(built) :
            LET o == built[k]
            IN  /\ o.estimated_fees
                     = PairFees(o.long_exchange, o.short_exchange, o.symbol)
                /\ o.net_profit_8h = o.rate_difference - o.estimated_fees
                /\ o.rate_difference = o.long_rate - o.short_rate
                /\ (/\ EXCHANGE_FEES[o.long_exchange] = 80000
                    /\ EXCHANGE_FEES[o.short_exchange] = 80000
                    /\ SLIPPAGE_ESTIMATES[o.symbol] = 10000
                    /\ o.long_rate = 6000
                    /\ o.short_rate = 200)
                   => (/\ o.rate_difference = 5800
                       /\ o.estimated_fees = 3800
                       /\ o.net_profit_8h = 2000)

C1_Witness ==
    /\ pc = "find_done"
    /\ \E k \in 1..Len(built) :
        /\ built[k].long_exchange = "Binance"
        /\ built[k].short_exchange = "Bybit"
        /\ built[k].symbol = "BTC"
        /\ built[k].long_rate = 6000
        /\ built[k].short_rate = 200
        /\ built[k].net_profit_8h = 2000

\* C2: every returned opportunity has long_rate >= short_rate and
\* rate_difference = long_rate - short_rate >= 0, its two rates being the
\* rates of two input records of its symbol.
C2_LongNotBelowShort ==
    pc = "find_done" =>
        \A k \in 1..Len(opportunities) :
            LET o == opportunities[k]
            IN  /\ o.long_rate >= o.short_rate
                /\ o.rate_difference = o.long_rate - o.short_rate
                /\ o.rate_difference >= 0
                /\ \E a, b \in 1..Len(funding_data) :
                    /\ a # b
                    /\ funding_data[a] = [exchange |-> o.long_exchange,
                                          symbol |-> o.symbol,
                                          rate |-> o.long_rate]
                    /\ funding_data[b] = [exchange |-> o.short_exchange,
                                          symbol |-> o.symbol,
                                          rate |-> o.short_rate]

\* The second record of the pair has the larger rate: lines 437-438 swap.
C2_Witness ==
    /\ pc = "find_done"
    /\ \E k \in 1..Len(opportunities) :
        \E a, b \in 1..Len(funding_data) :
            /\ a < b
            /\ funding_data[b] = [exchange |-> opportunities[k].long_exchange,
                                  symbol |-> opportunities[k].symbol,
                                  rate |-> opportunities[k].long_rate]
            /\ funding_data[a] = [exchange |-> opportunities[k].short_exchange,
                                  symbol |-> opportunities[k].symbol,
                                  rate |-> opportunities[k].short_rate]

\* C3: every returned opportunity has rate_difference > 0.0001 and
\* net_profit_8h > 0; a pair whose difference is at most 0.0001 or whose net
\* profit is at most 0 (rates 0.0010 and 0.0002 with fees 0.0038) is not in
\* the result.
C3_OnlyProfitableSpreads ==
    pc = "find_done" =>
        /\ \A k \in 1..Len(opportunities) :
            /\ opportunities[k].rate_difference > 100
            /\ opportunities[k].net_profit_8h > 0
            /\ ~ (/\ opportunities[k].long_rate = 1000
                  /\ opportunities[k].short_rate = 200
                  /\ opportunities[k].estimated_fees = 3800)
        /\ \A a, b \in 1..Len(funding_data) :
            (/\ a < b
             /\ funding_data[a].symbol = funding_data[b].symbol
             /\ ~ Reportable(a, b))
            => ~ \E k \in 1..Len(opportunities) : IsPairOf(opportunities[k], a, b)

\* The pair 0.0010 / 0.0002 was built and left out, while another pair of
\* the same input is returned.
C3_Witness ==
    /\ pc = "find_done"
    /\ Len(opportunities) > 0
    /\ \E k \in 1..Len(built) :
        /\ built[k].long_rate = 1000
        /\ built[k].short_rate = 200
        /\ built[k].net_profit_8h = -3000

\* C8: the returned list is sorted non-increasing by net_profit_8h.
C8_SortedDescending ==
    pc = "find_done" =>
        \A k \in 1..(Len(opportunities) - 1) :
            opportunities[k].net_profit_8h >= opportunities[k + 1].net_profit_8h

\* The sort changed the order in which the opportunities were appended.
C8_Witness ==
    /\ pc = "find_done"
    /\ Len(opportunities) >= 2
    /\ opportunities[1].net_profit_8h > opportunities[2].net_profit_8h
    /\ opportunities # SelectSeq(built, LAMBDA o : o.net_profit_8h > 0)

\* C9: returned opportunities with equal net_profit_8h appear in the order
\* in which their pairs were enumerated: symbols in order of first
\* appearance, then index pairs i < j in lexicographic order.
C9_TiesInEnumerationOrder ==
    pc = "find_done" =>
        \A k, l \in 1..Len(opportunities) :
            (/\ k < l
             /\ opportunities[k].net_profit_8h = opportunities[l].net_profit_8h)
            => LexLess(EnumKey(opportunities[k]), EnumKey(opportunities[l]))

C9_Witness ==
    /\ pc = "find_done"
    /\ \E k, l \in 1..Len(opportunities) :
        /\ k < l
        /\ opportunities[k].net_profit_8h = opportunities[l].net_profit_8h
        /\ opportunities[k] # opportunities[l]

\* C10: the result holds exactly one opportunity for every unordered pair of
\* records of the same symbol with rate_difference > 0.0001 and
\* net_profit_8h > 0, and nothing else: no pair across symbols, at most
\* n(n-1)/2 opportunities for a symbol with n records, none for a symbol
\* with a single record.
C10_ExactlyTheReportablePairs ==
    pc = "find_done" =>
        /\ \A a, b \in 1..Len(funding_data) :
            (a < b /\ funding_data[a].symbol = funding_data[b].symbol) =>
                Cardinality({k \in 1..Len(opportunities) :
                                IsPairOf(opportunities[k], a, b)})
                    = IF Reportable(a, b) THEN 1 ELSE 0
        /\ \A k \in 1..Len(opportunities) :
            \E a, b \in 1..Len(funding_data) :
                a < b /\ Reportable(a, b) /\ IsPairOf(opportunities[k], a, b)
        /\ \A s \in FindSymbols :
            LET n == Cardinality({a \in 1..Len(funding_data) :
                                    funding_data[a].symbol = s})
                m == Cardinality({k \in 1..Len(opportunities) :
                                    opportunities[k].symbol = s})
            IN  /\ 2 * m <= n * (n - 1)
                /\ (n = 1 => m = 0)

\* A symbol with three records gives two opportunities, its third pair being
\* below the threshold.
C10_Witness ==
    /\ pc = "find_done"
    /\ Len(funding_data) = 3
    /\ \A a \in 1..3 : funding_data[a].symbol = "BTC"
    /\ Len(opportunities) = 2

(***************************************************************************)
(* Properties of the adapters, checked under SpecAdapter.                  *)
(***************************************************************************)
\* The exchange returned a well-formed item for the requested symbol s.
WellFormedItemFor(s) ==
    /\ InList(s, symbols)
    /\ \/ /\ adapter = "Binance"
          /\ s \in DOMAIN BinanceSymbolMapping
          /\ response.kind = "http"
          /\ response.status = 200
          /\ \E k \in 1..Len(response.body) :
                /\ response.body[k].shape = "ok"
                /\ response.body[k].symbol = BinanceSymbolMapping[s]
       \/ /\ adapter = "OKX"
          /\ s \in DOMAIN OKXSymbolMapping
          /\ response[OKXSymbolMapping[s]].kind = "http"
          /\ response[OKXSymbolMapping[s]].status = 200
          /\ response[OKXSymbolMapping[s]].body.has_data
          /\ response[OKXSymbolMapping[s]].body.data # <<>>
          /\ response[OKXSymbolMapping[s]].body.data[1].shape = "ok"

HasRecord(s) == \E k \in 1..Len(funding_data) : funding_data[k].symbol = s

\* C4: when get_funding_rates has returned, every requested symbol for which
\* the exchange returned a well-formed item has its record, whatever failed
\* for the other symbols or items of the same call.
C4_OtherSymbolsStillEmitted ==
    pc = "adapter_returned" =>
        \A s \in {"BTC", "ETH"} : WellFormedItemFor(s) => HasRecord(s)

\* The per-symbol try of the OKX adapter does keep the other symbols.
OKXKeepsOtherSymbols ==
    (pc = "adapter_returned" /\ adapter = "OKX") =>
        \A s \in {"BTC", "ETH"} : WellFormedItemFor(s) => HasRecord(s)


(***************************************************************************)
(* Properties of collect_all_funding_rates, checked under SpecCollect.     *)
(***************************************************************************)
\* The place of an exchange in the table of FundingRateCollector.__init__.
TablePos(e) ==
    CASE e = "binance" -> 1
      [] e = "bybit" -> 2
      [] e = "okx" -> 3
      [] e = "bitget" -> 4
      [] e = "kucoin" -> 5

\* The records of the calls that returned, in call order.
RECURSIVE ReturnedRecords(_, _)
ReturnedRecords(log, k) ==
    IF k > Len(log) THEN <<>>
    ELSE (IF log[k].raised THEN <<>> ELSE log[k].rates)
         \o ReturnedRecords(log, k + 1)

\* C5: collect_all_funding_rates calls every enabled adapter exactly once,
\* in table order, and returns the concatenation, in that order, of what the
\* adapters returned; an adapter that raises adds nothing and the adapters
\* after it are still called.
C5_EveryAdapterOnceInOrder ==
    pc = "collected" =>
        /\ \A e \in enabled :
            Cardinality({k \in 1..Len(calls) : calls[k].exchange = e}) = 1
        /\ \A k \in 1..Len(calls) : calls[k].exchange \in enabled
        /\ \A k, l \in 1..Len(calls) :
            k < l => TablePos(calls[k].exchange) < TablePos(calls[l].exchange)
        /\ funding_data = ReturnedRecords(calls, 1)

\* An adapter raised and a later one returned a record.
C5_Witness ==
    /\ pc = "collected"
    /\ Len(calls) >= 3
    /\ \E k, l \in 1..Len(calls) :
        /\ k < l
        /\ calls[k].raised
        /\ ~ calls[l].raised
        /\ calls[l].rates # <<>>
    /\ Len(funding_data) >= 2

(***************************************************************************)
(* Properties of the bot in continuous mode, checked under Spec.           *)
(***************************************************************************)
\* C6: when the bot has been stopped by the stop signal, no output file is
\* partial: every file there is holds the complete array of its scan.
C6_NoPartialFileAfterStop ==
    pc = "stopped" => \A f \in DOMAIN files : files[f].complete

\* C7: once in its loop, run_continuous ends only on the stop signal; an
\* exception of the loop body is logged and followed by the sleep of the
\* except clause, not by the end of the loop.
C7_LoopEndsOnlyOnStopSignal ==
    /\ (in_loop /\ pc \in {"stopped", "crashed"})
        => exit_cause = "KeyboardInterrupt"
    /\ pc = "error_sleep" => (in_loop /\ last_log = "loop_error")

\* A save failed in one scan and left its file, a later scheduled scan raised
\* in the loop body, and after the sleep another scan is collecting.
C7_Witness ==
    /\ in_loop
    /\ pc = "collect"
    /\ last_log = "loop_error"
    /\ \E f \in DOMAIN files : ~ files[f].complete

(***************************************************************************)
(* Properties of one scan, checked under SpecScan.                         *)
(***************************************************************************)
\* The opportunities of a search whose net profit reaches the configured
\* threshold, in the order of the search.
AtThreshold(found) ==
    SelectSeq(found, LAMBDA o : o.net_profit_8h >= MIN_PROFIT_THRESHOLD)

\* The file entry e is the entry of the opportunity o.
EntryOf(e, o) ==
    /\ e.symbol = o.symbol
    /\ e.long_exchange = o.long_exchange
    /\ e.short_exchange = o.short_exchange
    /\ e.long_rate = o.long_rate
    /\ e.short_rate = o.short_rate
    /\ e.rate_difference = o.rate_difference
    /\ e.net_profit_8h_pct = o.net_profit_8h
    /\ e.estimated_profit_usd = o.net_profit_8h * POSITION_SIZE

\* The step returns from scan_opportunities to its caller.
ScanReturns ==
    /\ pc \in {"collected", "save_open", "save_write"}
    /\ pc' \in {"loop", "sleep"}

\* The step is the return after open() or json.dump raised.
SaveFailed ==
    /\ pc \in {"save_open", "save_write"}
    /\ ScanReturns
    /\ files' = files

\* C11: a scan touches the output directory only when some found opportunity
\* has a net profit at or above the threshold; a scan that returns, its save
\* not having raised, has written no file when there is no such opportunity,
\* and else has written one complete file that holds one entry for each such
\* opportunity (all of them, however many), in the order of the sorted
\* search result, each with estimated_profit_usd = net_profit_8h *
\* position_size.
C11_FileHoldsTheProfitableSet ==
    [][LET found == FindArbitrageOpportunities(funding_data)
           due == AtThreshold(found)
       IN  /\ files' # files => due # <<>>
           /\ (ScanReturns /\ ~ SaveFailed) =>
                IF due = <<>>
                THEN files' = files
                ELSE /\ pc = "save_write"
                     /\ filename \in DOMAIN files'
                     /\ files'[filename].complete
                     /\ Len(files'[filename].data) = Len(due)
                     /\ \A k \in 1..Len(due) :
                            EntryOf(files'[filename].data[k], due[k])]_vars

\* A scan has returned and left a complete file of six or more entries, the
\* first with a larger net profit than the last.
C11_Witness ==
    /\ pc = "loop"
    /\ \E f \in DOMAIN files :
        /\ files[f].complete
        /\ Len(files[f].data) >= 6
        /\ files[f].data[1].net_profit_8h_pct
              > files[f].data[Len(files[f].data)].net_profit_8h_pct
        /\ \A k \in 1..Len(files[f].data) :
              files[f].data[k].net_profit_8h_pct >= MIN_PROFIT_THRESHOLD

(***************************************************************************)
(* Properties of the output directory in continuous mode, checked under    *)
(* Spec.                                                                   *)
(***************************************************************************)
\* C12: a scan that saves writes a new file and never replaces the file of
\* an earlier scan: a file that a scan has completed stays in the directory
\* with the entries that scan wrote, whatever later scans save.
C12_NeverReplacesAnEarlierFile ==
    [][\A f \in DOMAIN files :
          files[f].complete =>
              (f \in DOMAIN files' /\ files'[f].data = files[f].data)]_vars

(***************************************************************************)
(* Properties of the rate limit, checked under SpecRate.                   *)
(***************************************************************************)
\* C13: of any two consecutive requests of one adapter instance, the second
\* is sent no less than min_request_interval after the time recorded for
\* the first (and so is its recorded time), however the first ended.
C13_RequestsSpacedByInterval ==
    \A a \in Instances :
        \A k \in 1..(Len(requests[a]) - 1) :
            /\ requests[a][k + 1].sent_at
                  >= requests[a][k].recorded + min_request_interval
            /\ requests[a][k + 1].recorded
                  >= requests[a][k].recorded + min_request_interval

\* Binance has sent two requests, the first ended with an exception and the
\* second went out exactly one interval after the first's recorded time;
\* OKX sent a request of its own in between, less than the interval after
\* Binance's first.
C13_Witness ==
    /\ Len(requests["Binance"]) = 2
    /\ requests["Binance"][1].outcome = "exception"
    /\ requests["Binance"][2].sent_at
          = requests["Binance"][1].recorded + min_request_interval
    /\ \E k \in 1..Len(requests["OKX"]) :
          /\ requests["OKX"][k].sent_at > requests["Binance"][1].sent_at
          /\ requests["OKX"][k].sent_at
                < requests["Binance"][1].sent_at + min_request_interval

(***************************************************************************)
(* Properties of a scan that collects nothing, checked under Spec.         *)
(***************************************************************************)
\* C14: when the collection of a scan has returned no record, the scan ends
\* with the warning and returns to its caller without an exception: it has
\* displayed no summary, made no search and found no opportunity, the
\* output directory is as it was, and run_continuous is in its loop, where
\* the next scheduled scan is run when it is due.
C14_NoDataEndsTheScanQuietly ==
    [][(pc = "collected" /\ funding_data = <<>> /\ pc' # "stopped") =>
          /\ last_log' = "no_data"
          /\ pc' \in {"loop", "sleep"}
          /\ in_loop'
          /\ exit_cause' = "none"
          /\ scan_log' = {}
          /\ opportunities' = <<>>
          /\ profitable_ops' = <<>>
          /\ files' = files]_vars

\* After a scan that collected nothing and warned, the loop has started a
\* later scan, which is collecting and has a record; no file was written.
C14_Witness ==
    /\ in_loop
    /\ pc = "collect"
    /\ last_log = "no_data"
    /\ funding_data # <<>>
    /\ files = <<>>


=============================================================================
